---- MODULE Spec2Model ----
(***************************************************************************)
(* Model of the building-permits extraction scripts: extract_permits.py    *)
(* (lenient validator, row-sequence validator, the batch over the scanned  *)
(* PDFs with its output files), validate_strict.py (strict validator,      *)
(* report aggregator) and test_extraction.py (the second copy of the       *)
(* lenient validator).                                                     *)
(*                                                                         *)
(* A Python str is a sequence of one-character strings.  A value of type   *)
(* "int | None" is a record: None, or IntOf(v).                            *)
(***************************************************************************)
EXTENDS Integers, Sequences, FiniteSets, TLC

VARIABLES
    s,                  \* parse_number: the argument
    parsed,             \* extract_permits.parse_number(s), or Pending
    strict_parsed,      \* validate_strict.parse_number(s), or Pending
    row,                \* validate_row / validate_row_strict: the argument
    errors,             \* extract_permits.validate_row(row), or Pending
    strict_errors,      \* validate_strict.validate_row_strict(row), or Pending
    rows,               \* validate_page_pair: the argument
    page_errors,        \* validate_page_pair(rows, ...), or Pending
    json_files,         \* validate_strict.main: the files scanned so far
    empty_files,        \* validate_strict.main: indices of files listed empty
    files_with_errors,  \* validate_strict.main: <<index, messages>> entries
    total_files,
    total_rows,
    total_errors,
    summary,            \* validate_strict.main: the SUMMARY block, or Pending
    pc,                 \* validate_strict.main: "scan", "done" or "nofiles"
    test_errors,        \* test_extraction.validate_row(row), or Pending
    calls,              \* the number of validator calls made on row and rows
    output_files,       \* raw_ocr/<year>/pages_XX_YY.json, by <<pdf, i>>
    run,                \* extract_permits.main: the number of the run
    pdf,                \* main: index in pdf_files of the PDF being processed
    pair,               \* process_pdf: the loop variable i
    step,               \* where the run is: "main", "loop", "extracting",
                        \* "sleep", "done", "aborted" (or "idle")
    pdf_total_rows,     \* process_pdf: total_rows
    extraction_errors,  \* process_pdf: extraction_errors
    validation_errors,  \* process_pdf: validation_errors
    results,            \* main: the results returned by process_pdf so far
    log_file,           \* validation_errors.log below its header
    stdout,             \* the per-pair lines printed during the run
    last_call,          \* what the extraction service saw last: "never",
                        \* "in flight", "returned", "raised" or "slept"
    batch               \* main: the totals of the SUMMARY block, or Pending

parseVars == <<s, parsed, strict_parsed>>
rowVars == <<row, errors, strict_errors>>
pageVars == <<rows, page_errors>>
mainVars == <<json_files, empty_files, files_with_errors, total_files,
              total_rows, total_errors, summary, pc>>
twinVars == <<test_errors>>
reuseVars == <<calls>>
pdfVars == <<output_files, run, pdf, pair, step, pdf_total_rows,
             extraction_errors, validation_errors, results, log_file, stdout,
             last_call, batch>>
restVars == <<twinVars, reuseVars, pdfVars>>
vars == <<parseVars, rowVars, pageVars, mainVars, restVars>>

\* The value of a result variable before its function has been called.
Pending == [kind |-> "pending"]
\* The value of a result variable once its function has returned v.
Returned(v) == [kind |-> "returned", val |-> v]

-----------------------------------------------------------------------------
(* Python values and string primitives                                     *)

None == [kind |-> "None"]
IntOf(v) == [kind |-> "int", val |-> v]

DigitChars == <<"0", "1", "2", "3", "4", "5", "6", "7", "8", "9">>
IsDigit(c) == \E d \in 1..10 : DigitChars[d] = c
DigitVal(c) == (CHOOSE d \in 1..10 : DigitChars[d] = c) - 1

\* Whitespace as str.strip() and int() see it (space and tab are the two
\* whitespace characters of the modelled alphabet).
IsSpace(c) == c \in {" ", "\t"}

RECURSIVE LStrip(_)
LStrip(t) == IF t # <<>> /\ IsSpace(Head(t)) THEN LStrip(Tail(t)) ELSE t

RECURSIVE RStrip(_)
RStrip(t) ==
    IF t # <<>> /\ IsSpace(t[Len(t)]) THEN RStrip(SubSeq(t, 1, Len(t) - 1)) ELSE t

\* str.strip()
Strip(t) == LStrip(RStrip(t))

\* str.replace(" ", ""): only the space character is removed, not the tab.
IsNotBlank(c) == c # " "
RemoveSpaces(t) == SelectSeq(t, IsNotBlank)

RECURSIVE DigitsValue(_)
DigitsValue(ds) ==
    IF ds = <<>> THEN 0
    ELSE 10 * DigitsValue(SubSeq(ds, 1, Len(ds) - 1)) + DigitVal(ds[Len(ds)])

AllDigits(ds) == ds # <<>> /\ \A i \in 1..Len(ds) : IsDigit(ds[i])

\* int(t) for a str t: surrounding whitespace is ignored, one optional sign,
\* then at least one digit; anything else raises ValueError (None here).
PyInt(t) ==
    LET u == Strip(t)
        signed == u # <<>> /\ Head(u) \in {"+", "-"}
        body == IF signed THEN Tail(u) ELSE u
    IN  IF ~AllDigits(body) THEN None
        ELSE IF signed /\ Head(u) = "-" THEN IntOf(0 - DigitsValue(body))
        ELSE IntOf(DigitsValue(body))

SuppressionMarker == <<"(", "X", ")">>
Dash == <<"-">>

-----------------------------------------------------------------------------
(* parse_number                                                            *)

\* Mutation of parse_number: the dash placeholder is compared without
\* trimming the surrounding whitespace.
parse_number_untrimmed(t) ==
    IF t = <<>> \/ t = SuppressionMarker THEN None
    ELSE IF t = Dash THEN IntOf(0)
    ELSE PyInt(RemoveSpaces(t))

\* extract_permits.parse_number
parse_number(t) ==
    IF t = <<>> \/ t = SuppressionMarker THEN None
    ELSE IF Strip(t) = Dash THEN IntOf(0)
    ELSE PyInt(RemoveSpaces(t))

\* Mutation of strict_parse_number: the thousands separators are kept, so a
\* number of four digits or more is unknown to this copy.
strict_parse_number_keeping_spaces(t) ==
    IF t = <<>> \/ t = SuppressionMarker THEN None
    ELSE IF Strip(t) = Dash THEN IntOf(0)
    ELSE PyInt(t)

\* validate_strict.parse_number (a textual copy)
strict_parse_number(t) ==
    IF t = <<>> \/ t = SuppressionMarker THEN None
    ELSE IF Strip(t) = Dash THEN IntOf(0)
    ELSE PyInt(RemoveSpaces(t))

\* Bounds of the parser's inputs: every string over Alphabet up to MaxLen.
MaxLen == 3
Alphabet == {" ", "\t", "-", "+", "0", "1", "7", "(", "X", ")"}
Strings == UNION {[1..n -> Alphabet] : n \in 0..MaxLen}

ParseNumber ==
    /\ parsed = Pending
    /\ parsed' = parse_number(s)
    /\ UNCHANGED <<s, strict_parsed>>

StrictParseNumber ==
    /\ strict_parsed = Pending
    /\ strict_parsed' = strict_parse_number(s)
    /\ UNCHANGED <<s, parsed>>

-----------------------------------------------------------------------------
(* Rows                                                                    *)

\* A row is a function from the keys it holds to strings (PermitRow).
UnitKeys == <<"total_units", "private_total", "public_units", "private_1_unit",
              "private_2_units", "private_3_4_units", "private_5plus_units">>
ValKeys == <<"total_valuation", "private_valuation", "public_valuation",
             "private_1_unit_val", "private_2_units_val",
             "private_3_4_units_val", "private_5plus_units_val">>

Range(f) == {f[i] : i \in DOMAIN f}

\* dict.get(k, default)
Get(r, k, default) == IF k \in DOMAIN r THEN r[k] ELSE default

Abs(n) == IF n < 0 THEN 0 - n ELSE n
Max(a, b) == IF a >= b THEN a ELSE b

\* int(n * 0.01): the float product truncated toward zero.
TruncPercent(n) == IF n >= 0 THEN n \div 100 ELSE 0 - ((0 - n) \div 100)

RECURSIVE Sum(_)
Sum(q) == IF q = <<>> THEN 0 ELSE Head(q) + Sum(Tail(q))

IsKnown(v) == v # None
AllKnown(q) == \A i \in 1..Len(q) : IsKnown(q[i])
Vals(q) == [i \in 1..Len(q) |-> q[i].val]

\* The "Parse numeric values" block: the parsed fields of a key group, in the
\* order total, private, public, 1 unit, 2 units, 3-4 units, 5+ units.
Parsed(r, keys) == [i \in 1..Len(keys) |-> parse_number(Get(r, keys[i], <<>>))]
StrictParsed(r, keys) ==
    [i \in 1..Len(keys) |-> strict_parse_number(Get(r, keys[i], <<>>))]

-----------------------------------------------------------------------------
(* extract_permits.validate_row                                            *)

UnitsFloor == 5
ValuationFloor == 10

\* "Check line_number is numeric"
LineNumberErrors(r) ==
    IF "line_number" \in DOMAIN r /\ PyInt(r["line_number"]) = None
    THEN <<[check |-> "Invalid line_number", value |-> r["line_number"]]>>
    ELSE <<>>

\* Mutation of SumCheck: the tolerance is the 1% term alone, without the floor.
SumCheckPercentOnly(name, p, floor) ==
    IF AllKnown(SubSeq(p, 1, 3))
    THEN LET expected == p[2].val + p[3].val
             diff == Abs(p[1].val - expected)
         IN  IF p[1].val # expected /\ diff > TruncPercent(p[1].val)
             THEN <<[check |-> name, total |-> p[1].val, sum |-> expected,
                     diff |-> diff]>>
             ELSE <<>>
    ELSE <<>>

\* Mutation of SumCheck: the tolerance is the bare floor, without the 1% term.
SumCheckFloorOnly(name, p, floor) ==
    IF AllKnown(SubSeq(p, 1, 3))
    THEN LET expected == p[2].val + p[3].val
             diff == Abs(p[1].val - expected)
         IN  IF p[1].val # expected /\ diff > floor
             THEN <<[check |-> name, total |-> p[1].val, sum |-> expected,
                     diff |-> diff]>>
             ELSE <<>>
    ELSE <<>>

\* "Check: total = private + public" (units with floor 5, valuation with 10)
SumCheck(name, p, floor) ==
    IF AllKnown(SubSeq(p, 1, 3))
    THEN LET expected == p[2].val + p[3].val
             diff == Abs(p[1].val - expected)
             tolerance == Max(floor, TruncPercent(p[1].val))
         IN  IF p[1].val # expected /\ diff > tolerance
             THEN <<[check |-> name, total |-> p[1].val, sum |-> expected,
                     diff |-> diff]>>
             ELSE <<>>
    ELSE <<>>

\* "Check: private total = sum of breakdowns"
BreakdownCheck(name, p, floor) ==
    IF IsKnown(p[2]) /\ AllKnown(SubSeq(p, 4, 7))
    THEN LET component_sum == Sum(Vals(SubSeq(p, 4, 7)))
             diff == Abs(p[2].val - component_sum)
             tolerance == Max(floor, TruncPercent(p[2].val))
         IN  IF diff > tolerance
             THEN <<[check |-> name, total |-> p[2].val, sum |-> component_sum,
                     diff |-> diff]>>
             ELSE <<>>
    ELSE <<>>

validate_row(r) ==
    LET u == Parsed(r, UnitKeys)
        v == Parsed(r, ValKeys)
    IN  LineNumberErrors(r)
        \o SumCheck("Units sum", u, UnitsFloor)
        \o BreakdownCheck("Private units", u, UnitsFloor)
        \o SumCheck("Valuation sum", v, ValuationFloor)
        \o BreakdownCheck("Private valuation", v, ValuationFloor)

-----------------------------------------------------------------------------
(* validate_strict.validate_row_strict                                     *)

StrictTolerance == 1

\* Mutation of StrictSumCheck: a difference of exactly the tolerance is
\* reported too (>= in place of >).
StrictSumCheckOffByOne(name, p) ==
    IF AllKnown(SubSeq(p, 1, 3))
    THEN LET expected == p[2].val + p[3].val
             diff == p[1].val - expected
         IN  IF Abs(diff) >= StrictTolerance
             THEN <<[check |-> name, total |-> p[1].val,
                     parts |-> Vals(SubSeq(p, 2, 3)), sum |-> expected,
                     diff |-> diff]>>
             ELSE <<>>
    ELSE <<>>

\* "Check: total = private + public"
StrictSumCheck(name, p) ==
    IF AllKnown(SubSeq(p, 1, 3))
    THEN LET expected == p[2].val + p[3].val
             diff == p[1].val - expected
         IN  IF Abs(diff) > StrictTolerance
             THEN <<[check |-> name, total |-> p[1].val,
                     parts |-> Vals(SubSeq(p, 2, 3)), sum |-> expected,
                     diff |-> diff]>>
             ELSE <<>>
    ELSE <<>>

\* Mutation of StrictBreakdownCheck: an unknown component counts as zero
\* instead of skipping the check.
StrictBreakdownCheckZeroFill(name, p) ==
    IF IsKnown(p[2])
    THEN LET q == [i \in 1..4 |-> IF IsKnown(p[i + 3]) THEN p[i + 3].val ELSE 0]
             component_sum == Sum(q)
             diff == p[2].val - component_sum
         IN  IF Abs(diff) > StrictTolerance
             THEN <<[check |-> name, total |-> p[2].val, parts |-> q,
                     sum |-> component_sum, diff |-> diff]>>
             ELSE <<>>
    ELSE <<>>

\* "Check: private total = sum of breakdowns"
StrictBreakdownCheck(name, p) ==
    IF IsKnown(p[2]) /\ AllKnown(SubSeq(p, 4, 7))
    THEN LET component_sum == Sum(Vals(SubSeq(p, 4, 7)))
             diff == p[2].val - component_sum
         IN  IF Abs(diff) > StrictTolerance
             THEN <<[check |-> name, total |-> p[2].val,
                     parts |-> Vals(SubSeq(p, 4, 7)), sum |-> component_sum,
                     diff |-> diff]>>
             ELSE <<>>
    ELSE <<>>

validate_row_strict(r) ==
    LET u == StrictParsed(r, UnitKeys)
        v == StrictParsed(r, ValKeys)
    IN  StrictSumCheck("total_units", u)
        \o StrictBreakdownCheck("private_total", u)
        \o StrictSumCheck("total_valuation", v)
        \o StrictBreakdownCheck("private_valuation", v)

-----------------------------------------------------------------------------
(* Row inputs: strings as the tables print them                            *)

RECURSIVE NatDigits(_)
NatDigits(n) ==
    IF n < 10 THEN <<DigitChars[n + 1]>>
    ELSE Append(NatDigits(n \div 10), DigitChars[(n % 10) + 1])

RECURSIVE Grouped(_)
Grouped(ds) ==
    IF Len(ds) <= 3 THEN ds
    ELSE Grouped(SubSeq(ds, 1, Len(ds) - 3)) \o <<" ">>
         \o SubSeq(ds, Len(ds) - 2, Len(ds))

\* A printed number: thousands separated by a space ("1 234"), a dash for
\* zero, a leading minus sign for a negative value.
Fmt(n) ==
    IF n = 0 THEN Dash
    ELSE IF n < 0 THEN <<"-">> \o Grouped(NatDigits(0 - n))
    ELSE Grouped(NatDigits(n))

\* Bounds of the row inputs.
MaxDiff == 13
MaxUnknown == 2
Totals == {0 - 150, 150, 560, 1200}
Diffs == (0 - MaxDiff)..MaxDiff

\* The seven numbers of a key group whose total is T, whose total differs
\* from private + public by d and whose private total differs from the sum
\* of its breakdown by e.
GroupValues(T, d, e) ==
    LET public == 10
        private == T - public - d
    IN  <<T, private, public, private - e - 3, 1, 2, 0>>

AllKeys == UnitKeys \o ValKeys \o <<"line_number">>

MkRow(u, v) ==
    [k \in Range(AllKeys) \cup {"smsa_name"} |->
        IF k = "line_number" THEN <<"7">>
        ELSE IF k = "smsa_name" THEN <<"A">>
        ELSE IF \E i \in 1..7 : UnitKeys[i] = k
             THEN Fmt(u[CHOOSE i \in 1..7 : UnitKeys[i] = k])
             ELSE Fmt(v[CHOOSE i \in 1..7 : ValKeys[i] = k])]

DiffPairs ==
    {<<d, 0>> : d \in Diffs} \cup {<<0, e>> : e \in Diffs}
    \cup {<<MaxDiff, MaxDiff>>, <<0 - MaxDiff, 0 - MaxDiff>>}
FullGroups == {GroupValues(T, de[1], de[2]) : T \in Totals, de \in DiffPairs}
FewGroups ==
    {GroupValues(150, 0, 0), GroupValues(560, 6, 0 - 6),
     GroupValues(1200, MaxDiff, MaxDiff)}
BadGroups == {GroupValues(T, D, D) : T \in Totals, D \in {MaxDiff, 0 - MaxDiff}}

ArithRows ==
    {MkRow(u, v) : u \in FullGroups, v \in FewGroups}
    \cup {MkRow(u, v) : u \in FewGroups, v \in FullGroups}

\* What a field that is not a number can hold; "absent" drops the key.
Absent == <<"<absent>">>
UnknownForms == {Absent, <<>>, SuppressionMarker, <<"n", "/", "a">>}

Mask(r, K, form) ==
    IF form = Absent THEN [k \in DOMAIN r \ K |-> r[k]]
    ELSE [k \in DOMAIN r |-> IF k \in K THEN form ELSE r[k]]

\* Rows in which every check would fail, with up to MaxUnknown fields
\* replaced by something that is not a number.
MaskedKeySets == {K \in SUBSET Range(AllKeys) : Cardinality(K) \in 1..MaxUnknown}
MaskedFrom(r) == {Mask(r, K, form) : K \in MaskedKeySets, form \in UnknownForms}
MaskedRows == UNION {MaskedFrom(MkRow(g, g)) : g \in BadGroups}

RowInputs == ArithRows \cup MaskedRows

ValidateRow ==
    /\ errors = Pending
    /\ errors' = Returned(validate_row(row))
    /\ UNCHANGED <<row, strict_errors>>

ValidateRowStrict ==
    /\ strict_errors = Pending
    /\ strict_errors' = Returned(validate_row_strict(row))
    /\ UNCHANGED <<row, errors>>

-----------------------------------------------------------------------------
(* extract_permits.validate_page_pair                                      *)

\* The "Validate each row" loop: every row error, prefixed with the row's
\* line number ("?" when the key is absent).
RECURSIVE RowErrors(_)
RowErrors(rs) ==
    IF rs = <<>> THEN <<>>
    ELSE LET r == Head(rs)
             errs == validate_row(r)
         IN  [i \in 1..Len(errs) |->
                [line |-> Get(r, "line_number", <<"?">>), err |-> errs[i]]]
             \o RowErrors(Tail(rs))

\* int(row.get("line_number", 0)): the default of an absent key is the
\* integer 0, which int() returns as it is; ValueError is None here.
CollectedLine(r) ==
    IF "line_number" \in DOMAIN r THEN PyInt(r["line_number"]) ELSE IntOf(0)

\* The "Check line number sequence" loop
RECURSIVE LineNumbers(_)
LineNumbers(rs) ==
    IF rs = <<>> THEN <<>>
    ELSE LET n == CollectedLine(Head(rs))
         IN  (IF n = None THEN <<>> ELSE <<n.val>>) \o LineNumbers(Tail(rs))

RECURSIVE MaxOf(_)
MaxOf(q) == IF Len(q) = 1 THEN q[1] ELSE Max(Head(q), MaxOf(Tail(q)))

\* sorted(): insertion of each element into the sorted rest.
RECURSIVE Insert(_, _)
Insert(x, q) ==
    IF q = <<>> THEN <<x>>
    ELSE IF x <= Head(q) THEN <<x>> \o q
    ELSE <<Head(q)>> \o Insert(x, Tail(q))

RECURSIVE Sorted(_)
Sorted(q) == IF q = <<>> THEN <<>> ELSE Insert(Head(q), Sorted(Tail(q)))

RECURSIVE SortedSet(_)
SortedSet(S) ==
    IF S = {} THEN <<>>
    ELSE LET m == CHOOSE x \in S : \A y \in S : x <= y
         IN  <<m>> \o SortedSet(S \ {m})

\* The three sequence checks on the collected line numbers.
SequenceErrors(line_numbers) ==
    IF line_numbers = <<>> THEN <<>>
    ELSE LET missing == (1..MaxOf(line_numbers)) \ Range(line_numbers)
             duplicates ==
                 SelectSeq(line_numbers,
                           LAMBDA n : Len(SelectSeq(line_numbers,
                                                    LAMBDA m : m = n)) > 1)
         IN  (IF missing # {}
              THEN <<[check |-> "Missing line numbers",
                      values |-> SortedSet(missing)]>>
              ELSE <<>>)
             \o (IF duplicates # <<>>
                 THEN <<[check |-> "Duplicate line numbers",
                         values |-> SortedSet(Range(duplicates))]>>
                 ELSE <<>>)
             \o (IF line_numbers # Sorted(line_numbers)
                 THEN <<[check |-> "Line numbers not in order"]>>
                 ELSE <<>>)

validate_page_pair(rs) == RowErrors(rs) \o SequenceErrors(LineNumbers(rs))

\* Bounds of the row lists.
MaxRows == 4
MaxLine == 4

\* What line_number can hold: a printed number, something that is not one,
\* or nothing (the key is absent).
LineForms == {Fmt(n) : n \in 1..MaxLine} \cup {<<"x">>, Absent}

PageRow(line, g) ==
    IF line = Absent THEN Mask(MkRow(g, g), {"line_number"}, Absent)
    ELSE [MkRow(g, g) EXCEPT !["line_number"] = line]

PageBodies == {GroupValues(150, 0, 0), GroupValues(150, MaxDiff, 0)}

PageRows(g) == {PageRow(line, g) : line \in LineForms}
PageInputs ==
    UNION {[1..n -> PageRows(g)] : n \in 0..MaxRows, g \in PageBodies}

ValidatePagePair ==
    /\ page_errors = Pending
    /\ page_errors' = Returned(validate_page_pair(rows))
    /\ UNCHANGED rows

-----------------------------------------------------------------------------
(* validate_strict.main                                                    *)

\* A JSON file: a list of rows, or text json.load() rejects.
Unparseable == [ok |-> FALSE]
RowSet(rs) == [ok |-> TRUE, rows |-> rs]

\* Mutation of FileErrors: only the first error of a row is recorded.
RECURSIVE FileErrorsFirstOnly(_)
FileErrorsFirstOnly(rs) ==
    IF rs = <<>> THEN <<>>
    ELSE LET r == Head(rs)
             row_errors == validate_row_strict(r)
         IN  [i \in 1..(IF row_errors = <<>> THEN 0 ELSE 1) |->
                [line |-> Get(r, "line_number", <<"?">>),
                 smsa |-> Get(r, "smsa_name", <<"Unknown">>),
                 err |-> row_errors[i]]]
             \o FileErrorsFirstOnly(Tail(rs))

\* The "Validate each row" loop: one message per error of each row.
RECURSIVE StrictRowMessages(_)
StrictRowMessages(rs) ==
    IF rs = <<>> THEN <<>>
    ELSE LET r == Head(rs)
             row_errors == validate_row_strict(r)
         IN  [i \in 1..Len(row_errors) |->
                [line |-> Get(r, "line_number", <<"?">>),
                 smsa |-> Get(r, "smsa_name", <<"Unknown">>),
                 err |-> row_errors[i]]]
             \o StrictRowMessages(Tail(rs))

\* Mutation of FileErrors: the row-sequence validator is run as well and its
\* messages are added to the file's messages.
FileErrorsWithSequence(rs) ==
    StrictRowMessages(rs) \o SequenceErrors(LineNumbers(rs))

\* file_errors of a non-empty row list
FileErrors(rs) == StrictRowMessages(rs)

\* Bounds of the scanned collections.
MaxFiles == 2
MaxFileRows == 2

\* A row without violation on line 2, a row with two violations on line 1.
ReportRows ==
    {[MkRow(GroupValues(150, 0, 0), GroupValues(150, 0, 0))
         EXCEPT !["line_number"] = Fmt(2)],
     [MkRow(GroupValues(150, MaxDiff, MaxDiff), GroupValues(150, 0, 0))
         EXCEPT !["line_number"] = Fmt(1)]}
FileContents ==
    {Unparseable}
    \cup UNION {{RowSet(rs) : rs \in [1..n -> ReportRows]} : n \in 0..MaxFileRows}

\* One iteration of "for json_file in json_files" on a file holding f.  The
\* glob yields names ending in .json only, so the suffix test never skips.
ScanFile(f) ==
    LET json_file == Len(json_files) + 1
    IN  /\ pc = "scan"
        /\ Len(json_files) < MaxFiles
        /\ json_files' = Append(json_files, f)
        /\ total_files' = total_files + 1
        /\ IF ~f.ok
           THEN /\ files_with_errors' =
                       Append(files_with_errors,
                              [file |-> json_file,
                               errors |-> <<[check |-> "JSON parse error"]>>])
                /\ UNCHANGED <<empty_files, total_rows, total_errors>>
           ELSE IF f.rows = <<>>
           THEN /\ empty_files' = Append(empty_files, json_file)
                /\ UNCHANGED <<files_with_errors, total_rows, total_errors>>
           ELSE LET file_errors == FileErrors(f.rows)
                IN  /\ total_rows' = total_rows + Len(f.rows)
                    /\ total_errors' = total_errors + Len(file_errors)
                    /\ files_with_errors' =
                           IF file_errors # <<>>
                           THEN Append(files_with_errors,
                                       [file |-> json_file, errors |-> file_errors])
                           ELSE files_with_errors
                    /\ UNCHANGED empty_files
        /\ UNCHANGED <<summary, pc>>

\* The directory holds no JSON file: "No JSON files found", no report.
NoFiles ==
    /\ pc = "scan"
    /\ json_files = <<>>
    /\ pc' = "nofiles"
    /\ UNCHANGED <<json_files, empty_files, files_with_errors, total_files,
                   total_rows, total_errors, summary>>

\* The loop is over: the SUMMARY block is written.
Report ==
    /\ pc = "scan"
    /\ json_files # <<>>
    /\ summary' = [total_files |-> total_files,
                   total_rows |-> total_rows,
                   empty_files |-> Len(empty_files),
                   files_with_errors |-> Len(files_with_errors),
                   total_errors |-> total_errors]
    /\ pc' = "done"
    /\ UNCHANGED <<json_files, empty_files, files_with_errors, total_files,
                   total_rows, total_errors>>

-----------------------------------------------------------------------------
(* extract_permits.main and process_pdf                                    *)

\* The PDFs of scans/ in sorted order, by the year their names end in.  The
\* run is modelled with the API key set and this directory not empty.
pdf_files == <<"1967", "1968">>

\* Bounds of the batch: pairs of pages per PDF, runs of main.
MaxPairs == 2
MaxRuns == 2

\* get_page_count: an odd number of pages, the last one without a partner.
page_count == 2 * MaxPairs + 1
num_pairs == page_count \div 2

page1(i) == i * 2 + 1
page2(i) == i * 2 + 2

\* The output files a run may meet, by PDF and loop index.
PairIds == (1..Len(pdf_files)) \X (0..(num_pairs - 1))
NoFile == [exists |-> FALSE]

\* What json.load() gives back is what json.dump() was given: a row list of
\* string fields is written and read without change.
StoredRows == <<PageRow(Fmt(2), GroupValues(150, 0, 0))>>
ExtractedRows == <<PageRow(Fmt(1), GroupValues(150, MaxDiff, 0))>>
StoredStates == {NoFile, Unparseable, RowSet(StoredRows)}
Exceptions == {"ServiceError"}

\* The lines "{year} pages {page1}-{page2}: {err}" of the log.
LogLines(y, i, val_errors) ==
    [k \in 1..Len(val_errors) |->
        [year |-> y, page1 |-> page1(i), page2 |-> page2(i),
         err |-> val_errors[k]]]

\* A "Pages {page1}-{page2}: ..." line printed for a pair.
PairLine(y, i, kind, n, issues) ==
    [year |-> y, page1 |-> page1(i), page2 |-> page2(i), kind |-> kind,
     rows |-> n, issues |-> issues]

\* main calls process_pdf on the next PDF; process_pdf starts its counts.
CallProcessPdf ==
    /\ step = "main"
    /\ pdf <= Len(pdf_files)
    /\ pair' = 0
    /\ pdf_total_rows' = 0
    /\ extraction_errors' = <<>>
    /\ validation_errors' = <<>>
    /\ step' = "loop"
    /\ UNCHANGED <<output_files, run, pdf, results, log_file, stdout,
                   last_call, batch>>

\* "Skip if already processed": the output file exists and json.load reads
\* a row list from it; the rows are counted and validated, "continue".
SkipProcessed ==
    /\ step = "loop"
    /\ pair < num_pairs
    /\ output_files[<<pdf, pair>>] # NoFile
    /\ output_files[<<pdf, pair>>].ok
    /\ LET existing == output_files[<<pdf, pair>>].rows
           val_errors == validate_page_pair(existing)
       IN  /\ pdf_total_rows' = pdf_total_rows + Len(existing)
           /\ validation_errors' = validation_errors \o val_errors
           /\ log_file' = log_file \o LogLines(pdf_files[pdf], pair, val_errors)
           /\ stdout' = Append(stdout,
                               PairLine(pdf_files[pdf], pair, "skipped",
                                        Len(existing), Len(val_errors)))
    /\ pair' = pair + 1
    /\ UNCHANGED <<output_files, run, pdf, step, extraction_errors, results,
                   last_call, batch>>

\* The output file exists and json.load raises JSONDecodeError: the call is
\* in no try block, the exception leaves process_pdf and main.
LoadExistingRaises ==
    /\ step = "loop"
    /\ pair < num_pairs
    /\ output_files[<<pdf, pair>>] # NoFile
    /\ ~output_files[<<pdf, pair>>].ok
    /\ step' = "aborted"
    /\ UNCHANGED <<output_files, run, pdf, pair, pdf_total_rows,
                   extraction_errors, validation_errors, results, log_file,
                   stdout, last_call, batch>>

\* No output file: extract_page_pair is called.
CallExtractor ==
    /\ step = "loop"
    /\ pair < num_pairs
    /\ output_files[<<pdf, pair>>] = NoFile
    /\ step' = "extracting"
    /\ last_call' = "in flight"
    /\ UNCHANGED <<output_files, run, pdf, pair, pdf_total_rows,
                   extraction_errors, validation_errors, results, log_file,
                   stdout, batch>>

\* extract_page_pair returns rs: the rest of the try block.
ExtractorReturns(rs) ==
    /\ step = "extracting"
    /\ output_files' = [output_files EXCEPT ![<<pdf, pair>>] = RowSet(rs)]
    /\ LET val_errors == validate_page_pair(rs)
       IN  /\ validation_errors' = validation_errors \o val_errors
           /\ log_file' = log_file \o LogLines(pdf_files[pdf], pair, val_errors)
           /\ stdout' = Append(stdout,
                               PairLine(pdf_files[pdf], pair, "extracted",
                                        Len(rs), Len(val_errors)))
    /\ pdf_total_rows' = pdf_total_rows + Len(rs)
    /\ last_call' = "returned"
    /\ step' = "sleep"
    /\ UNCHANGED <<run, pdf, pair, extraction_errors, results, batch>>

\* Mutation of ExtractorRaises: the delay is taken on the success path only,
\* a failed pair goes straight on to the next one.
ExtractorRaisesUndelayed(e) ==
    /\ step = "extracting"
    /\ extraction_errors' =
           Append(extraction_errors,
                  [page1 |-> page1(pair), page2 |-> page2(pair), e |-> e])
    /\ log_file' =
           Append(log_file,
                  [year |-> pdf_files[pdf], page1 |-> page1(pair),
                   page2 |-> page2(pair), e |-> e])
    /\ stdout' = Append(stdout, PairLine(pdf_files[pdf], pair, "error", 0, 0))
    /\ last_call' = "raised"
    /\ pair' = pair + 1
    /\ step' = "loop"
    /\ UNCHANGED <<output_files, run, pdf, pdf_total_rows, validation_errors,
                   results, batch>>

\* extract_page_pair raises e: the except block.
ExtractorRaises(e) ==
    /\ step = "extracting"
    /\ extraction_errors' =
           Append(extraction_errors,
                  [page1 |-> page1(pair), page2 |-> page2(pair), e |-> e])
    /\ log_file' =
           Append(log_file,
                  [year |-> pdf_files[pdf], page1 |-> page1(pair),
                   page2 |-> page2(pair), e |-> e])
    /\ stdout' = Append(stdout, PairLine(pdf_files[pdf], pair, "error", 0, 0))
    /\ last_call' = "raised"
    /\ step' = "sleep"
    /\ UNCHANGED <<output_files, run, pdf, pair, pdf_total_rows,
                   validation_errors, results, batch>>

\* "Rate limiting": time.sleep(REQUEST_DELAY), then the next pair.
Sleep ==
    /\ step = "sleep"
    /\ last_call' = "slept"
    /\ pair' = pair + 1
    /\ step' = "loop"
    /\ UNCHANGED <<output_files, run, pdf, pdf_total_rows, extraction_errors,
                   validation_errors, results, log_file, stdout, batch>>

\* The loop is over: process_pdf returns its statistics to main.
ReturnResult ==
    /\ step = "loop"
    /\ pair = num_pairs
    /\ results' = Append(results,
                         [year |-> pdf_files[pdf],
                          pages |-> page_count,
                          pairs |-> num_pairs,
                          rows |-> pdf_total_rows,
                          extraction_errors |-> extraction_errors,
                          validation_errors |-> Len(validation_errors)])
    /\ pdf' = pdf + 1
    /\ step' = "main"
    /\ UNCHANGED <<output_files, run, pair, pdf_total_rows, extraction_errors,
                   validation_errors, log_file, stdout, last_call, batch>>

\* Every PDF is processed: main adds up the results for the SUMMARY block.
Summarise ==
    /\ step = "main"
    /\ pdf > Len(pdf_files)
    /\ batch' =
           [total_rows |-> Sum([k \in 1..Len(results) |-> results[k].rows]),
            total_extraction_errors |->
                Sum([k \in 1..Len(results) |->
                        Len(results[k].extraction_errors)]),
            total_validation_errors |->
                Sum([k \in 1..Len(results) |-> results[k].validation_errors])]
    /\ step' = "done"
    /\ UNCHANGED <<output_files, run, pdf, pair, pdf_total_rows,
                   extraction_errors, validation_errors, results, log_file,
                   stdout, last_call>>

\* main is run again: a new process over the output files the earlier runs
\* left, the log opened with "w".
RunAgain ==
    /\ step \in {"done", "aborted"}
    /\ run < MaxRuns
    /\ run' = run + 1
    /\ pdf' = 1
    /\ pair' = 0
    /\ pdf_total_rows' = 0
    /\ extraction_errors' = <<>>
    /\ validation_errors' = <<>>
    /\ results' = <<>>
    /\ log_file' = <<>>
    /\ stdout' = <<>>
    /\ batch' = Pending
    /\ step' = "main"
    /\ UNCHANGED <<output_files, last_call>>

-----------------------------------------------------------------------------
(* test_extraction.parse_number and validate_row                           *)

\* test_extraction.parse_number (a textual copy)
test_parse_number(t) ==
    IF t = <<>> \/ t = SuppressionMarker THEN None
    ELSE IF Strip(t) = Dash THEN IntOf(0)
    ELSE PyInt(RemoveSpaces(t))

TestParsed(r, keys) ==
    [i \in 1..Len(keys) |-> test_parse_number(Get(r, keys[i], <<>>))]

required_fields == <<"line_number", "smsa_name", "total_units", "private_total">>

\* "Check required fields exist": absent or empty
RECURSIVE MissingFieldErrors(_, _)
MissingFieldErrors(r, fields) ==
    IF fields = <<>> THEN <<>>
    ELSE (IF Head(fields) \notin DOMAIN r \/ r[Head(fields)] = <<>>
          THEN <<[check |-> "Missing required field", field |-> Head(fields)]>>
          ELSE <<>>)
         \o MissingFieldErrors(r, Tail(fields))

\* Mutation of TestLineNumberErrors: the copy without the line_number check.
TestLineNumberErrorsAbsent(r) ==
    <<>>

\* "Check line_number is numeric"
TestLineNumberErrors(r) ==
    IF "line_number" \in DOMAIN r /\ PyInt(r["line_number"]) = None
    THEN <<[check |-> "Invalid line_number", value |-> r["line_number"]]>>
    ELSE <<>>

\* "Check: total = private + public"
TestSumCheck(name, p, floor) ==
    IF AllKnown(SubSeq(p, 1, 3))
    THEN LET expected == p[2].val + p[3].val
             diff == Abs(p[1].val - expected)
             tolerance == Max(floor, TruncPercent(p[1].val))
         IN  IF p[1].val # expected /\ diff > tolerance
             THEN <<[check |-> name, total |-> p[1].val, sum |-> expected,
                     diff |-> diff]>>
             ELSE <<>>
    ELSE <<>>

\* "Check: private total = sum of breakdowns"
TestBreakdownCheck(name, p, floor) ==
    IF IsKnown(p[2]) /\ AllKnown(SubSeq(p, 4, 7))
    THEN LET component_sum == Sum(Vals(SubSeq(p, 4, 7)))
             diff == Abs(p[2].val - component_sum)
             tolerance == Max(floor, TruncPercent(p[2].val))
         IN  IF diff > tolerance
             THEN <<[check |-> name, total |-> p[2].val, sum |-> component_sum,
                     diff |-> diff]>>
             ELSE <<>>
    ELSE <<>>

\* test_extraction.validate_row
test_validate_row(r) ==
    LET u == TestParsed(r, UnitKeys)
        v == TestParsed(r, ValKeys)
    IN  MissingFieldErrors(r, required_fields)
        \o TestLineNumberErrors(r)
        \o TestSumCheck("Units sum mismatch", u, UnitsFloor)
        \o TestBreakdownCheck("Private units breakdown mismatch", u, UnitsFloor)
        \o TestSumCheck("Valuation sum mismatch", v, ValuationFloor)
        \o TestBreakdownCheck("Private valuation breakdown mismatch", v,
                              ValuationFloor)

\* What line_number holds in the rows given to the copies of the validator.
TwinLineForms ==
    {Fmt(7), <<" ", "7">>, <<"+", "7">>, <<"1", " ", "2">>, <<"7", ".", "0">>,
     <<"x">>, Dash, SuppressionMarker, <<>>, Absent}
TwinBodies ==
    {GroupValues(150, 0, 0), GroupValues(150, MaxDiff, 0),
     GroupValues(1200, MaxDiff, MaxDiff)}
TwinInputs == {PageRow(line, g) : line \in TwinLineForms, g \in TwinBodies}

TestValidateRow ==
    /\ test_errors = Pending
    /\ test_errors' = Returned(test_validate_row(row))
    /\ UNCHANGED <<row, errors, strict_errors>>

-----------------------------------------------------------------------------
(* The validators called again and again on the same rows                  *)

\* Bound of the number of calls.
MaxCalls == 4

\* Mutation of CallValidateRow: the parsed total is stored back in the row.
CallValidateRowInPlace ==
    /\ calls < MaxCalls
    /\ errors' = Returned(validate_row(row))
    /\ row' = IF "total_units" \in DOMAIN row
                 /\ parse_number(row["total_units"]) # None
              THEN [row EXCEPT !["total_units"] =
                       NatDigits(Abs(parse_number(row["total_units"]).val))]
              ELSE row
    /\ calls' = calls + 1
    /\ UNCHANGED <<strict_errors, rows, page_errors>>

\* validate_row(row): the row is read with row.get and row[...] only, the
\* errors are a list made by the call.
CallValidateRow ==
    /\ calls < MaxCalls
    /\ errors' = Returned(validate_row(row))
    /\ row' = row
    /\ calls' = calls + 1
    /\ UNCHANGED <<strict_errors, rows, page_errors>>

\* validate_row_strict(row): the row is read with row.get only.
CallValidateRowStrict ==
    /\ calls < MaxCalls
    /\ strict_errors' = Returned(validate_row_strict(row))
    /\ row' = row
    /\ calls' = calls + 1
    /\ UNCHANGED <<errors, rows, page_errors>>

\* validate_page_pair(rows, ...): the list is iterated twice and each row is
\* read with row.get and passed to validate_row.
CallValidatePagePair ==
    /\ calls < MaxCalls
    /\ page_errors' = Returned(validate_page_pair(rows))
    /\ rows' = rows
    /\ calls' = calls + 1
    /\ UNCHANGED <<row, errors, strict_errors>>

ReuseRows ==
    {MkRow(GroupValues(150, 0, 0), GroupValues(150, 0, 0)),
     MkRow(GroupValues(1200, MaxDiff, MaxDiff), GroupValues(1200, MaxDiff, MaxDiff)),
     Mask(MkRow(GroupValues(1200, MaxDiff, MaxDiff), GroupValues(150, MaxDiff, 0)),
          {"private_total"}, Absent),
     PageRow(<<"x">>, GroupValues(150, MaxDiff, 0))}
ReuseLists ==
    UNION {[1..n -> PageRows(GroupValues(150, MaxDiff, 0))] : n \in {0, 2}}

-----------------------------------------------------------------------------
(* Specifications                                                          *)

\* parse_number on every string of the bounded alphabet
InitParse ==
    /\ s \in Strings
    /\ parsed = Pending /\ strict_parsed = Pending
    /\ row = <<>> /\ errors = Pending /\ strict_errors = Pending
    /\ rows = <<>> /\ page_errors = Pending
    /\ json_files = <<>> /\ empty_files = <<>> /\ files_with_errors = <<>>
    /\ total_files = 0 /\ total_rows = 0 /\ total_errors = 0
    /\ summary = Pending /\ pc = "scan"
    /\ test_errors = Pending /\ calls = 0
    /\ output_files = <<>> /\ run = 0 /\ pdf = 0 /\ pair = 0 /\ step = "idle"
    /\ pdf_total_rows = 0 /\ extraction_errors = <<>> /\ validation_errors = <<>>
    /\ results = <<>> /\ log_file = <<>> /\ stdout = <<>>
    /\ last_call = "never" /\ batch = Pending
NextParse ==
    \/ ParseNumber /\ UNCHANGED <<rowVars, pageVars, mainVars, restVars>>
    \/ StrictParseNumber /\ UNCHANGED <<rowVars, pageVars, mainVars, restVars>>
SpecParse == InitParse /\ [][NextParse]_vars

\* the two row validators on every row input
InitRow ==
    /\ s = <<>> /\ parsed = Pending /\ strict_parsed = Pending
    /\ row \in RowInputs
    /\ errors = Pending /\ strict_errors = Pending
    /\ rows = <<>> /\ page_errors = Pending
    /\ json_files = <<>> /\ empty_files = <<>> /\ files_with_errors = <<>>
    /\ total_files = 0 /\ total_rows = 0 /\ total_errors = 0
    /\ summary = Pending /\ pc = "scan"
    /\ test_errors = Pending /\ calls = 0
    /\ output_files = <<>> /\ run = 0 /\ pdf = 0 /\ pair = 0 /\ step = "idle"
    /\ pdf_total_rows = 0 /\ extraction_errors = <<>> /\ validation_errors = <<>>
    /\ results = <<>> /\ log_file = <<>> /\ stdout = <<>>
    /\ last_call = "never" /\ batch = Pending
NextRow ==
    \/ ValidateRow /\ UNCHANGED <<parseVars, pageVars, mainVars, restVars>>
    \/ ValidateRowStrict /\ UNCHANGED <<parseVars, pageVars, mainVars, restVars>>
SpecRow == InitRow /\ [][NextRow]_vars

\* validate_page_pair on every row list
InitPage ==
    /\ s = <<>> /\ parsed = Pending /\ strict_parsed = Pending
    /\ row = <<>> /\ errors = Pending /\ strict_errors = Pending
    /\ rows \in PageInputs
    /\ page_errors = Pending
    /\ json_files = <<>> /\ empty_files = <<>> /\ files_with_errors = <<>>
    /\ total_files = 0 /\ total_rows = 0 /\ total_errors = 0
    /\ summary = Pending /\ pc = "scan"
    /\ test_errors = Pending /\ calls = 0
    /\ output_files = <<>> /\ run = 0 /\ pdf = 0 /\ pair = 0 /\ step = "idle"
    /\ pdf_total_rows = 0 /\ extraction_errors = <<>> /\ validation_errors = <<>>
    /\ results = <<>> /\ log_file = <<>> /\ stdout = <<>>
    /\ last_call = "never" /\ batch = Pending
NextPage == ValidatePagePair /\ UNCHANGED <<parseVars, rowVars, mainVars, restVars>>
SpecPage == InitPage /\ [][NextPage]_vars

\* validate_strict.main over every collection of files
InitMain ==
    /\ s = <<>> /\ parsed = Pending /\ strict_parsed = Pending
    /\ row = <<>> /\ errors = Pending /\ strict_errors = Pending
    /\ rows = <<>> /\ page_errors = Pending
    /\ json_files = <<>> /\ empty_files = <<>> /\ files_with_errors = <<>>
    /\ total_files = 0 /\ total_rows = 0 /\ total_errors = 0
    /\ summary = Pending /\ pc = "scan"
    /\ test_errors = Pending /\ calls = 0
    /\ output_files = <<>> /\ run = 0 /\ pdf = 0 /\ pair = 0 /\ step = "idle"
    /\ pdf_total_rows = 0 /\ extraction_errors = <<>> /\ validation_errors = <<>>
    /\ results = <<>> /\ log_file = <<>> /\ stdout = <<>>
    /\ last_call = "never" /\ batch = Pending
NextMain ==
    \/ \E f \in FileContents :
           ScanFile(f) /\ UNCHANGED <<parseVars, rowVars, pageVars, restVars>>
    \/ NoFiles /\ UNCHANGED <<parseVars, rowVars, pageVars, restVars>>
    \/ Report /\ UNCHANGED <<parseVars, rowVars, pageVars, restVars>>
SpecMain == InitMain /\ [][NextMain]_vars

\* extract_permits.main, run up to MaxRuns times over every state of the
\* output directory
InitPdf ==
    /\ s = <<>> /\ parsed = Pending /\ strict_parsed = Pending
    /\ row = <<>> /\ errors = Pending /\ strict_errors = Pending
    /\ rows = <<>> /\ page_errors = Pending
    /\ json_files = <<>> /\ empty_files = <<>> /\ files_with_errors = <<>>
    /\ total_files = 0 /\ total_rows = 0 /\ total_errors = 0
    /\ summary = Pending /\ pc = "scan"
    /\ test_errors = Pending /\ calls = 0
    /\ output_files \in [PairIds -> StoredStates]
    /\ run = 1 /\ pdf = 1 /\ pair = 0 /\ step = "main"
    /\ pdf_total_rows = 0 /\ extraction_errors = <<>> /\ validation_errors = <<>>
    /\ results = <<>> /\ log_file = <<>> /\ stdout = <<>>
    /\ last_call = "never" /\ batch = Pending
otherVars == <<parseVars, rowVars, pageVars, mainVars, twinVars, reuseVars>>
NextPdf ==
    \/ CallProcessPdf /\ UNCHANGED otherVars
    \/ SkipProcessed /\ UNCHANGED otherVars
    \/ LoadExistingRaises /\ UNCHANGED otherVars
    \/ CallExtractor /\ UNCHANGED otherVars
    \/ ExtractorReturns(ExtractedRows) /\ UNCHANGED otherVars
    \/ \E e \in Exceptions : ExtractorRaises(e) /\ UNCHANGED otherVars
    \/ Sleep /\ UNCHANGED otherVars
    \/ ReturnResult /\ UNCHANGED otherVars
    \/ Summarise /\ UNCHANGED otherVars
    \/ RunAgain /\ UNCHANGED otherVars
SpecPdf == InitPdf /\ [][NextPdf]_vars

\* the two copies of the lenient validator and the strict validator on rows
\* with every form of line_number
InitTwin ==
    /\ s = <<>> /\ parsed = Pending /\ strict_parsed = Pending
    /\ row \in TwinInputs
    /\ errors = Pending /\ strict_errors = Pending
    /\ rows = <<>> /\ page_errors = Pending
    /\ json_files = <<>> /\ empty_files = <<>> /\ files_with_errors = <<>>
    /\ total_files = 0 /\ total_rows = 0 /\ total_errors = 0
    /\ summary = Pending /\ pc = "scan"
    /\ test_errors = Pending /\ calls = 0
    /\ output_files = <<>> /\ run = 0 /\ pdf = 0 /\ pair = 0 /\ step = "idle"
    /\ pdf_total_rows = 0 /\ extraction_errors = <<>> /\ validation_errors = <<>>
    /\ results = <<>> /\ log_file = <<>> /\ stdout = <<>>
    /\ last_call = "never" /\ batch = Pending
NextTwin ==
    \/ ValidateRow
       /\ UNCHANGED <<parseVars, pageVars, mainVars, twinVars, reuseVars, pdfVars>>
    \/ ValidateRowStrict
       /\ UNCHANGED <<parseVars, pageVars, mainVars, twinVars, reuseVars, pdfVars>>
    \/ TestValidateRow
       /\ UNCHANGED <<parseVars, pageVars, mainVars, reuseVars, pdfVars>>
SpecTwin == InitTwin /\ [][NextTwin]_vars

\* the three validators called up to MaxCalls times, in any order, on one
\* row and one row list
InitReuse ==
    /\ s = <<>> /\ parsed = Pending /\ strict_parsed = Pending
    /\ row \in ReuseRows
    /\ errors = Pending /\ strict_errors = Pending
    /\ rows \in ReuseLists
    /\ page_errors = Pending
    /\ json_files = <<>> /\ empty_files = <<>> /\ files_with_errors = <<>>
    /\ total_files = 0 /\ total_rows = 0 /\ total_errors = 0
    /\ summary = Pending /\ pc = "scan"
    /\ test_errors = Pending /\ calls = 0
    /\ output_files = <<>> /\ run = 0 /\ pdf = 0 /\ pair = 0 /\ step = "idle"
    /\ pdf_total_rows = 0 /\ extraction_errors = <<>> /\ validation_errors = <<>>
    /\ results = <<>> /\ log_file = <<>> /\ stdout = <<>>
    /\ last_call = "never" /\ batch = Pending
NextReuse ==
    \/ CallValidateRow /\ UNCHANGED <<parseVars, mainVars, twinVars, pdfVars>>
    \/ CallValidateRowStrict /\ UNCHANGED <<parseVars, mainVars, twinVars, pdfVars>>
    \/ CallValidatePagePair /\ UNCHANGED <<parseVars, mainVars, twinVars, pdfVars>>
SpecReuse == InitReuse /\ [][NextReuse]_vars

-----------------------------------------------------------------------------
(* Vocabulary of the properties                                            *)

\* t is an integer numeral: an optional sign and one or more digits, with
\* nothing but whitespace around them.
IsNumeral(t) ==
    \E i, j \in 1..Len(t) :
        /\ i <= j
        /\ \A k \in 1..(i - 1) : IsSpace(t[k])
        /\ \A k \in (j + 1)..Len(t) : IsSpace(t[k])
        /\ LET b == IF t[i] \in {"+", "-"} THEN i + 1 ELSE i
           IN  b <= j /\ \A k \in b..j : t[k] \in Range(DigitChars)

\* The integer an integer numeral denotes.
NumeralValue(t) ==
    LET D == {k \in 1..Len(t) : t[k] \in Range(DigitChars)}
        last == CHOOSE k \in D : \A m \in D : m <= k
        Weighted[k \in 0..Len(t)] ==
            IF k = 0 THEN 0
            ELSE Weighted[k - 1]
                 + (IF k \in D THEN DigitVal(t[k]) * 10 ^ (last - k) ELSE 0)
        magnitude == Weighted[Len(t)]
    IN  IF \E k \in 1..Len(t) : t[k] = "-" THEN 0 - magnitude ELSE magnitude

HasCheck(msgs, name) == \E i \in 1..Len(msgs) : msgs[i].check = name
Count(msgs, name) == Cardinality({i \in 1..Len(msgs) : msgs[i].check = name})

\* The four arithmetic checks: the key of the reported total, the keys of its
\* parts, and the name each validator gives the check in its messages.
Checks == 1..4
TotalKey ==
    <<"total_units", "private_total", "total_valuation", "private_valuation">>
PartKeys ==
    <<<<"private_total", "public_units">>,
      <<"private_1_unit", "private_2_units", "private_3_4_units",
        "private_5plus_units">>,
      <<"private_valuation", "public_valuation">>,
      <<"private_1_unit_val", "private_2_units_val", "private_3_4_units_val",
        "private_5plus_units_val">>>>
LenientName ==
    <<"Units sum", "Private units", "Valuation sum", "Private valuation">>
StrictName ==
    <<"total_units", "private_total", "total_valuation", "private_valuation">>
CheckKeys(c) == {TotalKey[c]} \cup Range(PartKeys[c])

\* A field is unknown: its key is absent, or it is empty, the suppression
\* marker, or neither a dash nor a numeral once its spaces are removed.
IsUnknownField(r, k) ==
    \/ k \notin DOMAIN r
    \/ r[k] = <<>>
    \/ r[k] = SuppressionMarker
    \/ Strip(r[k]) # Dash /\ ~IsNumeral(RemoveSpaces(r[k]))

\* The number a known field holds.
FieldValue(r, k) ==
    IF Strip(r[k]) = Dash THEN 0 ELSE NumeralValue(RemoveSpaces(r[k]))

AllFieldsKnown(r, c) == \A k \in CheckKeys(c) : ~IsUnknownField(r, k)

\* Reported total minus the sum of its parts, for a check with known fields.
Difference(r, c) ==
    FieldValue(r, TotalKey[c])
    - Sum([i \in 1..Len(PartKeys[c]) |-> FieldValue(r, PartKeys[c][i])])

\* round(0.01 * n), halves to the even neighbour.
RoundPercent(n) ==
    LET q == n \div 100
        r == n % 100
    IN  IF r < 50 THEN q
        ELSE IF r > 50 THEN q + 1
        ELSE IF q % 2 = 0 THEN q ELSE q + 1

\* max(floor, 1% of n) with the 1% cut down to a whole number.
FlooredPercent(floor, n) ==
    IF n < 100 * (floor + 1) THEN floor
    ELSE CHOOSE q \in floor..n : 100 * q <= n /\ n < 100 * (q + 1)

-----------------------------------------------------------------------------
(* C1: parse_number                                                        *)

\* What the parser returns for t, as amended: zero for a lone dash, None for
\* the empty string and for what is neither a dash nor a numeral once the
\* spaces are removed (the suppression marker is such a string), else the
\* numeral's value.
ParseContract(p, t) ==
    /\ Strip(t) = Dash => p = IntOf(0)
    /\ p = None <=> (t = <<>> \/ (Strip(t) # Dash /\ ~IsNumeral(RemoveSpaces(t))))
    /\ (p # None /\ Strip(t) # Dash) => p = IntOf(NumeralValue(RemoveSpaces(t)))
    /\ p = IntOf(0) <=>
          \/ Strip(t) = Dash
          \/ t # <<>> /\ IsNumeral(RemoveSpaces(t))
             /\ NumeralValue(RemoveSpaces(t)) = 0

-----------------------------------------------------------------------------
(* C2 .. C6: the row validators                                            *)

\* C2 as stated: with total_units, private_total and public_units known, the
\* lenient validator is silent about the units sum iff the absolute
\* difference is at most max(5, round(0.01 * total_units)).
C2_AsStated ==
    (errors # Pending /\ AllFieldsKnown(row, 1)) =>
        (~HasCheck(errors.val, "Units sum") <=>
            Abs(Difference(row, 1))
                <= Max(5, RoundPercent(FieldValue(row, "total_units"))))

\* C2 (amended): with total_units, private_total and public_units known, the
\* lenient validator is silent about the units sum iff the absolute
\* difference is at most max(5, int(0.01 * total_units)), the 1% being
\* truncated to a whole number, not rounded.
C2_UnitsSumTolerance ==
    (errors # Pending /\ AllFieldsKnown(row, 1)) =>
        (~HasCheck(errors.val, "Units sum") <=>
            Abs(Difference(row, 1))
                <= FlooredPercent(5, FieldValue(row, "total_units")))

\* C2 witness: a difference above the floor of 5 that the 1% term lets pass.
C2_Witness ==
    /\ errors # Pending
    /\ AllFieldsKnown(row, 1)
    /\ Abs(Difference(row, 1)) > 5
    /\ ~HasCheck(errors.val, "Units sum")

C4_ExactEquality ==
    strict_errors # Pending =>
        \A c \in Checks :
            (AllFieldsKnown(row, c) /\ Difference(row, c) # 0) =>
                HasCheck(strict_errors.val, StrictName[c])

\* C5: in both validators, a check with any unknown participating field
\* (absent key, empty, suppression marker, unparseable) emits no diagnostic.
C5_UnknownSkipsCheck ==
    \A c \in Checks :
        (\E k \in CheckKeys(c) : IsUnknownField(row, k)) =>
            /\ errors # Pending => ~HasCheck(errors.val, LenientName[c])
            /\ strict_errors # Pending =>
                  ~HasCheck(strict_errors.val, StrictName[c])

\* C5 witness: total_units is unknown in a row whose four checks would all
\* fail; both validators ran and report the three other checks only.
C5_Witness ==
    /\ IsUnknownField(row, "total_units")
    /\ errors # Pending
    /\ strict_errors # Pending
    /\ Len(strict_errors.val) = 3
    /\ \A c \in 2..4 : HasCheck(errors.val, LenientName[c])
    /\ ~HasCheck(errors.val, LenientName[1])

\* C6: the lenient validator never reports a unit-count mismatch of at most 5
\* nor a valuation mismatch of at most 10, whatever the totals.
C6_LenientFloors ==
    errors # Pending =>
        \A c \in Checks :
            (AllFieldsKnown(row, c)
             /\ Abs(Difference(row, c)) <= (IF c \in {1, 2} THEN 5 ELSE 10)) =>
                ~HasCheck(errors.val, LenientName[c])

\* C6 witness: a negative valuation total off by exactly 10, not reported.
C6_Witness ==
    /\ errors # Pending
    /\ AllFieldsKnown(row, 3)
    /\ FieldValue(row, "total_valuation") < 0
    /\ Abs(Difference(row, 3)) = 10
    /\ ~HasCheck(errors.val, "Valuation sum")

-----------------------------------------------------------------------------
(* C7, C8: the row-sequence validator                                      *)

\* The integer line numbers of a row list, in extraction order: a row
\* contributes one iff it holds the key and the value is a numeral.
RECURSIVE ObservedLines(_)
ObservedLines(rs) ==
    IF rs = <<>> THEN <<>>
    ELSE (IF "line_number" \in DOMAIN Head(rs)
             /\ IsNumeral(Head(rs)["line_number"])
          THEN <<NumeralValue(Head(rs)["line_number"])>>
          ELSE <<>>)
         \o ObservedLines(Tail(rs))

MissingIn(obs) ==
    {n \in 1..(CHOOSE m \in Range(obs) : \A x \in Range(obs) : x <= m) :
        n \notin Range(obs)}
DuplicatedIn(obs) ==
    {n \in Range(obs) : Cardinality({i \in 1..Len(obs) : obs[i] = n}) > 1}
Descends(obs) == \E i \in 1..(Len(obs) - 1) : obs[i] > obs[i + 1]

\* The messages of the sequence check among those of validate_page_pair
\* (a row's message carries the row's line and error).
IsSequenceMessage(m) == "err" \notin DOMAIN m
SequenceMessages(msgs) == SelectSeq(msgs, IsSequenceMessage)

\* The statement of C7 about the messages msgs emitted for the row list rs.
SequenceContract(rs, msgs) ==
    LET obs == ObservedLines(rs)
        seq == SequenceMessages(msgs)
    IN  obs # <<>> =>
            /\ Count(seq, "Missing line numbers")
                  = (IF MissingIn(obs) # {} THEN 1 ELSE 0)
            /\ Count(seq, "Duplicate line numbers")
                  = (IF DuplicatedIn(obs) # {} THEN 1 ELSE 0)
            /\ Count(seq, "Line numbers not in order")
                  = (IF Descends(obs) THEN 1 ELSE 0)
            /\ \A i \in 1..Len(seq) :
                  /\ seq[i].check = "Missing line numbers" =>
                        Range(seq[i].values) = MissingIn(obs)
                  /\ seq[i].check = "Duplicate line numbers" =>
                        Range(seq[i].values) = DuplicatedIn(obs)

\* C7: for every row list with at least one integer line number, the missing
\* message is emitted iff a value of 1..max is not observed (listing exactly
\* those), the duplicate message iff a value occurs more than once (listing
\* exactly those), the order message iff the observed sequence descends
\* somewhere; each is decided on its own, and duplicates alone never trigger
\* the order message.
C7_SequenceMessages ==
    page_errors # Pending => SequenceContract(rows, page_errors.val)

\* C7, restricted to row lists in which every row holds the line_number key:
\* the part of C7 the code does satisfy.
C7_WhenEveryRowHasTheKey ==
    (page_errors # Pending /\ \A i \in 1..Len(rows) : "line_number" \in DOMAIN rows[i])
        => SequenceContract(rows, page_errors.val)

\* rs without its i-th row
WithoutRow(rs, i) == SubSeq(rs, 1, i - 1) \o SubSeq(rs, i + 1, Len(rs))

HasNoIntegerLine(r) ==
    "line_number" \notin DOMAIN r \/ ~IsNumeral(r["line_number"])

\* C8: a row whose line_number is not an integer, or whose key is absent, is
\* dropped by the sequence check: with or without such a row, at any place of
\* the list, the sequence messages are the same.
C8_NonIntegerRowsDropped ==
    page_errors # Pending =>
        \A i \in 1..Len(rows) :
            HasNoIntegerLine(rows[i]) =>
                SequenceMessages(validate_page_pair(WithoutRow(rows, i)))
                    = SequenceMessages(page_errors.val)

\* C8, restricted to rows that hold the key with a value that is no integer:
\* the part of C8 the code does satisfy.
C8_WhenTheKeyIsPresent ==
    page_errors # Pending =>
        \A i \in 1..Len(rows) :
            ("line_number" \in DOMAIN rows[i] /\ HasNoIntegerLine(rows[i])) =>
                SequenceMessages(validate_page_pair(WithoutRow(rows, i)))
                    = SequenceMessages(page_errors.val)

-----------------------------------------------------------------------------
(* C9, C10: the report aggregator                                          *)

RowSetFiles == {i \in 1..Len(json_files) : json_files[i].ok}
RowCount(i) == IF json_files[i].ok THEN Len(json_files[i].rows) ELSE 0

\* The diagnostics the strict validator has for the rows of file i.
DiagnosticCount(i) ==
    IF json_files[i].ok
    THEN Sum([j \in 1..Len(json_files[i].rows) |->
                 Len(validate_row_strict(json_files[i].rows[j]))])
    ELSE 0

\* C9: after main has scanned a collection of row-set files, the summary
\* gives: total files, the number of files scanned; empty files, the number
\* of files with zero rows; total rows, the sum of the row counts; files with
\* errors, the number of files with at least one diagnostic; total validation
\* errors, the number of row diagnostics over all files.
C9_SummaryFigures ==
    (pc = "done" /\ RowSetFiles = 1..Len(json_files)) =>
        /\ summary.total_files = Len(json_files)
        /\ summary.empty_files =
              Cardinality({i \in RowSetFiles : json_files[i].rows = <<>>})
        /\ summary.total_rows =
              Sum([i \in 1..Len(json_files) |-> RowCount(i)])
        /\ summary.files_with_errors =
              Cardinality({i \in RowSetFiles : DiagnosticCount(i) > 0})
        /\ summary.total_errors =
              Sum([i \in 1..Len(json_files) |-> DiagnosticCount(i)])

\* C9 witness: an empty file and a file of two rows, one of them with two
\* violations, give 2 files, 1 empty file, 2 rows, 1 file with errors, 2
\* errors.
C9_Witness ==
    /\ pc = "done"
    /\ RowSetFiles = 1..Len(json_files)
    /\ summary = [total_files |-> 2, total_rows |-> 2, empty_files |-> 1,
                  files_with_errors |-> 1, total_errors |-> 2]

\* The line numbers of a row list have a gap, a duplicate or are out of order.
IsAnomalous(rs) ==
    LET obs == ObservedLines(rs)
    IN  obs # <<>> /\ (MissingIn(obs) # {} \/ DuplicatedIn(obs) # {} \/ Descends(obs))

StructuralChecks ==
    {"Missing line numbers", "Duplicate line numbers", "Line numbers not in order"}
IsStructuralMessage(m) == "check" \in DOMAIN m /\ m.check \in StructuralChecks
IsRowDiagnostic(m) == "err" \in DOMAIN m /\ m.err.check \in Range(StrictName)

EntriesOf(i) ==
    {k \in 1..Len(files_with_errors) : files_with_errors[k].file = i}

\* C10: every non-empty row-set file scanned by main whose line numbers have a
\* gap, a duplicate or are out of order has a structural-anomaly message in
\* its message list and is listed among the files with errors.
C10_AsStated ==
    pc = "done" =>
        \A i \in RowSetFiles :
            (json_files[i].rows # <<>> /\ IsAnomalous(json_files[i].rows)) =>
                \E k \in EntriesOf(i) :
                    \E j \in 1..Len(files_with_errors[k].errors) :
                        IsStructuralMessage(files_with_errors[k].errors[j])

\* C10 (amended): main runs the strict row validator alone over every row
\* set: whatever the line numbers of a non-empty row-set file, its message
\* list holds row diagnostics only, never a structural-anomaly message, and
\* the file is listed among the files with errors iff one of its rows has a
\* strict arithmetic diagnostic.
C10_RowValidatorOnly ==
    \A i \in RowSetFiles :
        /\ \A k \in EntriesOf(i) :
              \A j \in 1..Len(files_with_errors[k].errors) :
                  /\ IsRowDiagnostic(files_with_errors[k].errors[j])
                  /\ ~IsStructuralMessage(files_with_errors[k].errors[j])
        /\ Cardinality(EntriesOf(i)) = (IF DiagnosticCount(i) > 0 THEN 1 ELSE 0)

\* C10 witness: the report is written, and a scanned file with anomalous
\* line numbers and no arithmetic violation is not among the files with
\* errors.
C10_Witness ==
    /\ pc = "done"
    /\ \E i \in RowSetFiles :
          /\ IsAnomalous(json_files[i].rows)
          /\ EntriesOf(i) = {}

-----------------------------------------------------------------------------
(* C11 .. C13, C15: the batch over the scanned PDFs                        *)

IsUnparseable(f) == f # NoFile /\ ~f.ok
IsRowSet(f) == f # NoFile /\ f.ok
NoneUnparseable == \A p \in PairIds : ~IsUnparseable(output_files[p])

\* The run has ended, by the end of main or by an exception.
RunOver == step \in {"done", "aborted"}

\* process_pdf has been called on PDF k in this run.
Started(k) == k < pdf \/ (k = pdf /\ step # "main")

\* This run has gone past pair p.
Handled(p) == p[1] < pdf \/ (p[1] = pdf /\ step # "main" /\ p[2] < pair)

\* The lines this run printed for pair p, those of a kind, and the lines of
\* the log about a failure on pair p.
LinesOf(p) ==
    {j \in 1..Len(stdout) :
        stdout[j].year = pdf_files[p[1]] /\ stdout[j].page1 = page1(p[2])}
KindOf(p, kind) == {j \in LinesOf(p) : stdout[j].kind = kind}
LoggedFailures(p) ==
    {j \in 1..Len(log_file) :
        /\ "e" \in DOMAIN log_file[j]
        /\ log_file[j].year = pdf_files[p[1]]
        /\ log_file[j].page1 = page1(p[2])}

\* The counts of process_pdf on PDF k in this run: returned, or current.
ExtractionErrorsOf(k) ==
    IF k <= Len(results) THEN results[k].extraction_errors
    ELSE IF k = pdf /\ step # "main" THEN extraction_errors
    ELSE <<>>
RowsCountedFor(k) ==
    IF k <= Len(results) THEN results[k].rows
    ELSE IF k = pdf /\ step # "main" THEN pdf_total_rows
    ELSE 0
RecordedFailures(p) ==
    {j \in 1..Len(ExtractionErrorsOf(p[1])) :
        ExtractionErrorsOf(p[1])[j].page1 = page1(p[2])}

\* The rows of the pairs of PDF k that this run printed as read or extracted.
RowsPrintedFor(k) ==
    Sum([j \in 1..Len(stdout) |->
            IF stdout[j].year = pdf_files[k] /\ stdout[j].kind # "error"
            THEN stdout[j].rows ELSE 0])

\* The validation errors of rs are in the log, under pair p.
AreLogged(p, rs) ==
    LET lines == LogLines(pdf_files[p[1]], p[2], validate_page_pair(rs))
    IN  \A k \in 1..Len(lines) : \E j \in 1..Len(log_file) : log_file[j] = lines[k]

\* C11: in process_pdf, an existing output file that fails to parse never
\* aborts the run: no exception ends the run, and each unparseable file the
\* run has gone past has an error entry (in extraction_errors and in the log)
\* while the run went on with the next pair.
C11_MalformedInputCaught ==
    /\ step # "aborted"
    /\ \A p \in PairIds :
          (Handled(p) /\ IsUnparseable(output_files[p])) =>
              (RecordedFailures(p) # {} /\ LoggedFailures(p) # {})

\* C11, the half about validate_strict.main: every scanned file that fails
\* to parse has its own entry among the files with errors, holding the parse
\* error, and the scan goes on (a later file is scanned and reported).
C11_StrictMainCatches ==
    \A f \in 1..Len(json_files) :
        ~json_files[f].ok =>
            /\ \E k \in 1..Len(files_with_errors) :
                  /\ files_with_errors[k].file = f
                  /\ files_with_errors[k].errors = <<[check |-> "JSON parse error"]>>
            /\ pc \in {"scan", "done"}
            /\ total_files >= f

\* An unparseable file was scanned first and a second file after it, and the
\* report was written.
C11_StrictMainGoesOn ==
    /\ pc = "done"
    /\ Len(json_files) = 2
    /\ ~json_files[1].ok
    /\ json_files[2].ok

\* The statement of C12 about an extraction that failed on pair p in this run.
FailedPairContract(p) ==
    /\ RecordedFailures(p) # {}
    /\ LoggedFailures(p) # {}
    /\ output_files[p] = NoFile
    /\ KindOf(p, "extracted") = {} /\ KindOf(p, "skipped") = {}
    /\ RowsCountedFor(p[1]) = RowsPrintedFor(p[1])
    /\ RunOver =>
          \A q \in PairIds : (q[1] = p[1] /\ q[2] > p[2]) => LinesOf(q) # {}

\* C12: when extract_page_pair raises on a pair, the failure is recorded in
\* extraction_errors and written to the log, no output file is written and no
\* row is counted for the pair, and every later pair of the PDF is still
\* processed: by the end of the run each of them has its line.
C12_FailedPairSkipped ==
    \A p \in PairIds : KindOf(p, "error") # {} => FailedPairContract(p)

\* C12, restricted to runs over output directories in which every existing
\* file parses: the part of C12 the code does satisfy.
C12_WhenStoredOutputsParse ==
    NoneUnparseable =>
        \A p \in PairIds : KindOf(p, "error") # {} => FailedPairContract(p)

\* The first pair of the first PDF failed, the run ended normally, and the
\* second pair of that PDF was extracted after the failure.
C12_Reached ==
    /\ step = "done"
    /\ KindOf(<<1, 0>>, "error") # {}
    /\ KindOf(<<1, 1>>, "extracted") # {}

\* An extractor call starts on the pair the loop is at.
CallStarts == step # "extracting" /\ step' = "extracting"

\* A step keeps every existing output file as it is and starts no extractor
\* call on a pair whose output file exists.
CacheKept ==
    /\ \A p \in PairIds :
          output_files[p] # NoFile => output_files'[p] = output_files[p]
    /\ CallStarts => output_files[<<pdf', pair'>>] = NoFile

\* The statement of C13 about the stored rows of pair p at the end of a run
\* of process_pdf that did not extract them itself.
StoredRowsContract(p) ==
    /\ \E j \in KindOf(p, "skipped") :
          /\ stdout[j].rows = Len(output_files[p].rows)
          /\ stdout[j].issues = Len(validate_page_pair(output_files[p].rows))
    /\ AreLogged(p, output_files[p].rows)
    /\ RowsCountedFor(p[1]) = RowsPrintedFor(p[1])

\* The pairs whose rows were stored before this run came to them, in a PDF
\* this run has called process_pdf on.
StoredBefore ==
    {p \in PairIds :
        /\ Started(p[1])
        /\ IsRowSet(output_files[p])
        /\ KindOf(p, "extracted") = {}}

\* C13: the output files are an idempotent cache: over any sequence of runs,
\* once an output file exists no step calls the extractor for its pair or
\* rewrites it, and every run of process_pdf, by the time it ends, has
\* validated the stored rows of each pair of its PDF, added them to the row
\* total and logged their validation errors.
C13_IdempotentCache ==
    /\ [][CacheKept]_vars
    /\ [](RunOver => \A p \in StoredBefore : StoredRowsContract(p))

\* C13, restricted to output directories in which every existing file
\* parses: the part of C13 the code does satisfy.
C13_WhenStoredOutputsParse ==
    /\ [][CacheKept]_vars
    /\ []((RunOver /\ NoneUnparseable) =>
            \A p \in StoredBefore : StoredRowsContract(p))

\* The second run has ended; the rows the first run extracted for the first
\* pair were read back from the file, validated and counted, not extracted.
C13_Reached ==
    /\ run = 2
    /\ step = "done"
    /\ output_files[<<1, 0>>] = RowSet(ExtractedRows)
    /\ KindOf(<<1, 0>>, "skipped") # {}
    /\ StoredRowsContract(<<1, 0>>)

\* C15: calls of the extraction service are sequential and a delay apart: an
\* extractor call starts only when no call was made before, or when the
\* REQUEST_DELAY sleep has followed the last call; never while a call is in
\* flight, nor right after one returned or raised, within a PDF, from one PDF
\* to the next, or from one run to the next.
C15_DelayBetweenCalls ==
    [][CallStarts => last_call \in {"never", "slept"}]_vars

\* C15 witness: a call is in flight on the first pair of the second PDF, in a
\* run in which the first PDF had one call that raised and one that returned.
C15_Witness ==
    /\ step = "extracting"
    /\ last_call = "in flight"
    /\ pdf = 2 /\ pair = 0
    /\ KindOf(<<1, 0>>, "error") # {}
    /\ KindOf(<<1, 1>>, "extracted") # {}

-----------------------------------------------------------------------------
(* C14: validation is read-only                                            *)

-----------------------------------------------------------------------------
(* C16: the line_number check in the copies of the validator               *)

InvalidLine == "Invalid line_number"
TestName ==
    <<"Units sum mismatch", "Private units breakdown mismatch",
      "Valuation sum mismatch", "Private valuation breakdown mismatch">>

\* The row holds a line_number that is not an integer numeral.
HasNonIntegerLine(r) ==
    "line_number" \in DOMAIN r /\ ~IsNumeral(r["line_number"])

\* The arithmetic mismatch diagnostics among msgs.
IsArithmetic(m) == m.check \in Range(LenientName) \cup Range(TestName)
ArithmeticPart(msgs) == SelectSeq(msgs, IsArithmetic)

\* r with an integer on its line.
WithIntegerLine(r) ==
    [k \in DOMAIN r \cup {"line_number"} |->
        IF k = "line_number" THEN Fmt(7) ELSE r[k]]

\* msgs holds one 'Invalid line_number' diagnostic, quoting the value, when
\* the line of r is not an integer, and none otherwise.
DetectsLine(msgs, r) ==
    /\ Count(msgs, InvalidLine) = (IF HasNonIntegerLine(r) THEN 1 ELSE 0)
    /\ \A i \in 1..Len(msgs) :
          msgs[i].check = InvalidLine => msgs[i].value = r["line_number"]

\* C16 as stated: for a row whose line_number is not parseable as an integer,
\* exactly one of extract_permits.validate_row and test_extraction.validate_row
\* emits an 'Invalid line_number' diagnostic, and that diagnostic is not one
\* of the arithmetic mismatch diagnostics.
C16_AsStated ==
    (errors # Pending /\ test_errors # Pending /\ HasNonIntegerLine(row)) =>
        /\ HasCheck(errors.val, InvalidLine) # HasCheck(test_errors.val, InvalidLine)
        /\ InvalidLine \notin Range(LenientName) \cup Range(TestName)

\* C16 (amended): both copies of the lenient validator detect a non-integer
\* line_number and the strict validator does not: validate_row of
\* extract_permits and of test_extraction each emit exactly one 'Invalid
\* line_number' diagnostic when the key is present with a value that is not
\* an integer, and none when the value is an integer or the key is absent;
\* validate_row_strict never emits one; the arithmetic diagnostics of the row
\* are those of the same row with an integer line number.
C16_BothCopiesDetect ==
    /\ errors # Pending =>
          /\ DetectsLine(errors.val, row)
          /\ ArithmeticPart(errors.val)
                = ArithmeticPart(validate_row(WithIntegerLine(row)))
    /\ test_errors # Pending =>
          /\ DetectsLine(test_errors.val, row)
          /\ ArithmeticPart(test_errors.val)
                = ArithmeticPart(test_validate_row(WithIntegerLine(row)))
    /\ strict_errors # Pending => ~HasCheck(strict_errors.val, InvalidLine)

\* C16 witness: a row with a non-integer line_number and a units mismatch
\* went through the three validators; both lenient copies report the line
\* and the mismatch.
C16_Witness ==
    /\ HasNonIntegerLine(row)
    /\ errors # Pending /\ test_errors # Pending /\ strict_errors # Pending
    /\ HasCheck(errors.val, InvalidLine)
    /\ HasCheck(test_errors.val, InvalidLine)
    /\ HasCheck(errors.val, "Units sum")
    /\ HasCheck(test_errors.val, "Units sum mismatch")

-----------------------------------------------------------------------------
(* C17: the strict validator against the lenient one                       *)

\* C17: for every row and each of the four arithmetic checks, a diagnostic of
\* the lenient validate_row comes with a diagnostic of validate_row_strict
\* for the same check; so a row without strict diagnostics has no lenient
\* arithmetic diagnostic.
C17_StrictAtLeastAsStrict ==
    (errors # Pending /\ strict_errors # Pending) =>
        /\ \A c \in Checks :
              HasCheck(errors.val, LenientName[c]) =>
                  HasCheck(strict_errors.val, StrictName[c])
        /\ strict_errors.val = <<>> =>
              \A c \in Checks : ~HasCheck(errors.val, LenientName[c])

\* C17 witness: both validators ran on a row of which the lenient one reports
\* a check (the strict one too) and passes another that the strict one
\* reports.
C17_Witness ==
    /\ errors # Pending /\ strict_errors # Pending
    /\ \E c \in Checks :
          /\ HasCheck(errors.val, LenientName[c])
          /\ HasCheck(strict_errors.val, StrictName[c])
    /\ \E c \in Checks :
          /\ ~HasCheck(errors.val, LenientName[c])
          /\ HasCheck(strict_errors.val, StrictName[c])

-----------------------------------------------------------------------------
(* C18: the error count of the report                                      *)

\* The messages listed under the files with errors.
ListedMessages ==
    Sum([k \in 1..Len(files_with_errors) |-> Len(files_with_errors[k].errors)])

\* The statement of C18 about a written report.
ErrorCountContract ==
    /\ summary.total_errors = ListedMessages
    /\ summary.files_with_errors > 0 => summary.total_errors > 0
    /\ \A k \in 1..Len(files_with_errors) :
          files_with_errors[k].file \notin Range(empty_files)

\* C18: at the end of validate_strict.main, whatever files were scanned
\* (empty and unparseable ones included), the total validation-error count
\* equals the number of messages listed under the files with errors, a
\* non-zero count of files with errors comes with a non-zero error count, and
\* no file is listed both as empty and as having errors.
C18_ErrorCountMatchesMessages ==
    pc = "done" => ErrorCountContract

\* C18, restricted to collections in which every file parses: the part of
\* C18 the code does satisfy.
C18_WhenEveryFileParses ==
    (pc = "done" /\ RowSetFiles = 1..Len(json_files)) => ErrorCountContract

\* No file is listed both as empty and as having errors, whatever was
\* scanned.
C18_NeverEmptyAndErrors ==
    \A k \in 1..Len(files_with_errors) :
        files_with_errors[k].file \notin Range(empty_files)

====
